---- MODULE Spec2Model ----
(***************************************************************************)
(* A model of flowjo_data_extraction.py (class FlowDataProcessor): the     *)
(* plate-map and measurement loaders, the join/aggregate pipeline of       *)
(* process_data, the XY reshape and the two export handlers.               *)
(*                                                                         *)
(* Text is modelled as sequences of one-character strings so that Python's *)
(* string order, concatenation, str() and the well-suffix pattern are      *)
(* computed and not assumed.  A spreadsheet cell or a table cell is a      *)
(* tagged record [t, v]: t = "str" (text), "int" (a number used as a       *)
(* label, v its decimal digits), "num" (a metric reading, v = <<n>>),      *)
(* "sd" (a dispersion statistic over the readings v) or "nan" (missing).   *)
(***************************************************************************)
EXTENDS Integers, Sequences, FiniteSets, TLC

(***************************************************************************)
(* Bounds of the model.                                                    *)
(***************************************************************************)
\* the longest list of measurement files the model loads
MaxFiles == 3
\* the longest list of measurement files that is aggregated
MaxProcessFiles == 2
\* the most entries of the filter list the analyst selects
MaxSelected == 1

(***************************************************************************)
(* Python text.                                                            *)
(***************************************************************************)
\* the ASCII characters 32..122 in code order (four of them by name)
Ascii ==
  << " ", "!", "QUOTE", "#", "$", "%", "&", "APOSTROPHE", "(", ")", "*", "+", ",", "-", ".", "/",
     "0", "1", "2", "3", "4", "5", "6", "7", "8", "9",
     ":", ";", "<", "=", ">", "?", "@",
     "A", "B", "C", "D", "E", "F", "G", "H", "I", "J", "K", "L", "M",
     "N", "O", "P", "Q", "R", "S", "T", "U", "V", "W", "X", "Y", "Z",
     "[", "BACKSLASH", "]", "^", "_", "BACKTICK",
     "a", "b", "c", "d", "e", "f", "g", "h", "i", "j", "k", "l", "m",
     "n", "o", "p", "q", "r", "s", "t", "u", "v", "w", "x", "y", "z" >>

\* ord(c) and chr(n) of Python, on the characters above
ord(c) == 31 + (CHOOSE i \in 1..Len(Ascii) : Ascii[i] = c)
chr(n) == Ascii[n - 31]

IsDigit(c) == c \in {"0", "1", "2", "3", "4", "5", "6", "7", "8", "9"}

\* a < b on Python str: code-point lexicographic, a proper prefix first
RECURSIVE StrLess(_, _)
StrLess(a, b) ==
  IF b = <<>> THEN FALSE
  ELSE IF a = <<>> THEN TRUE
  ELSE IF a[1] = b[1] THEN StrLess(Tail(a), Tail(b))
  ELSE ord(a[1]) < ord(b[1])

\* the decimal digits of a natural number
RECURSIVE Decimal(_)
Decimal(n) == IF n < 10 THEN <<chr(48 + n)>> ELSE Decimal(n \div 10) \o <<chr(48 + (n % 10))>>

\* the format specification :02d
Format02d(n) == IF n < 10 THEN <<"0">> \o Decimal(n) ELSE Decimal(n)

RECURSIVE Concat(_)
Concat(ss) == IF ss = <<>> THEN <<>> ELSE Head(ss) \o Concat(Tail(ss))

Range(s) == {s[i] : i \in 1..Len(s)}

(***************************************************************************)
(* Cells and labels.                                                       *)
(***************************************************************************)
Str(s) == [t |-> "str", v |-> s]
IntLabel(d) == [t |-> "int", v |-> d]
Num(n) == [t |-> "num", v |-> <<n>>]
NaN == [t |-> "nan", v |-> <<>>]

notna(x) == x.t # "nan"
isna(x) == x.t = "nan"

\* str(x) / Series.astype(str): a number prints its digits, a missing value "nan"
str(x) == IF x.t = "nan" THEN <<"n", "a", "n">> ELSE x.v

\* x < y between two labels of one type
Less(x, y) ==
  IF x.t = "str" THEN StrLess(x.v, y.v)
  ELSE Len(x.v) < Len(y.v) \/ (Len(x.v) = Len(y.v) /\ StrLess(x.v, y.v))

\* sorted() raises TypeError when it has to compare a str with a number
sortedRaises(S) == \E x, y \in S : x.t # y.t

\* sorted(S) of distinct labels of one type
RECURSIVE sorted(_)
sorted(S) ==
  IF S = {} THEN <<>>
  ELSE LET m == CHOOSE x \in S : \A y \in S : y = x \/ Less(x, y)
       IN  <<m>> \o sorted(S \ {m})

\* sorted() of a set of str
sortedStr(S) == LET r == sorted({Str(s) : s \in S}) IN [i \in 1..Len(r) |-> r[i].v]

\* Series.unique(): the distinct values in order of first appearance
unique(s) ==
  LET first == SelectSeq([i \in 1..Len(s) |-> i], LAMBDA i : \A j \in 1..(i - 1) : s[j] # s[i])
  IN  [k \in 1..Len(first) |-> s[first[k]]]

\* a DataFrame held in a field, or None
None == [df |-> FALSE, rows |-> <<>>]
DataFrame(rows) == [df |-> TRUE, rows |-> rows]

\* a declared order held in a field: None or a non-empty list
NoOrder == [some |-> FALSE, items |-> <<>>]
Order(items) == [some |-> TRUE, items |-> items]

All == <<"A", "l", "l">>

(***************************************************************************)
(* WellGridParser: process_plate_map and the order column.                 *)
(* A spreadsheet as pd.read_excel returns it: readable (FALSE: read_excel  *)
(* raises), ncols, and rows of ncols cells.                                *)
(***************************************************************************)
\* index of the order column ("column 14")
OrderCol == 13

\* load_sample_map / load_group_map: the declared order read from column 13
ReadOrder(df) ==
  IF df.ncols > OrderCol
  THEN LET col == [i \in 1..Len(df.rows) |-> df.rows[i][OrderCol + 1]]
           kept == SelectSeq(col, notna)
       IN  IF kept = <<>> THEN NoOrder ELSE Order(kept)
  ELSE NoOrder

\* process_plate_map: index of the last row with a non-blank cell right of column 0
LastRow(df) ==
  LET used == {i \in 1..Len(df.rows) : \E c \in 2..df.ncols : notna(df.rows[i][c])}
  IN  IF used = {} THEN 0 ELSE (CHOOSE i \in used : \A j \in used : j <= i) - 1

\* process_plate_map: f"{row_letter}{col_idx:02d}"
WellPosition(row_idx, col_idx) == <<chr(65 + row_idx)>> \o Format02d(col_idx)

\* process_plate_map: the wells of one grid row, columns 1..num_cols-1
RowWells(df, row_idx) ==
  LET row == df.rows[row_idx + 1]
      all == [c \in 1..(df.ncols - 1) |->
                [Well |-> Str(WellPosition(row_idx, c)), Value |-> row[c + 1]]]
  IN  SelectSeq(all, LAMBDA w : notna(w.Value))

\* process_plate_map raises IndexError at df.iloc[0] on a grid without rows
PlateMapRaises(df) == Len(df.rows) = 0

\* process_plate_map: the list well_data, rows 0..last_row
WellData(df) == Concat([r \in 1..(LastRow(df) + 1) |-> RowWells(df, r - 1)])

\* process_plate_map: the dict well_dict as its set of items (a later cell of the
\* same well wins)
WellDict(df) ==
  LET wd == WellData(df)
  IN  {wd[i] : i \in {k \in 1..Len(wd) : \A j \in 1..Len(wd) : wd[j].Well = wd[k].Well => j <= k}}

\* process_plate_map: (pd.DataFrame(well_data), well_dict); pd.DataFrame([]) has no columns
process_plate_map(df) == [map |-> DataFrame(WellData(df)), dict |-> WellDict(df)]

(***************************************************************************)
(* update_filter_list.                                                     *)
(***************************************************************************)
\* the labels of one axis in display order, given that map of the axis and declared order
AxisLabels(map, order) ==
  LET values == unique([i \in 1..Len(map.rows) |-> map.rows[i].Value])
      valid == Range(values)
      ordered == SelectSeq(order.items, LAMBDA x : x \in valid)
  IN  IF order.some THEN ordered \o sorted(valid \ Range(ordered)) ELSE sorted(valid)

\* map['Value'] raises KeyError on the column-less frame; sorted() raises on mixed types
AxisLabelsRaises(map, order) ==
  LET values == unique([i \in 1..Len(map.rows) |-> map.rows[i].Value])
      valid == Range(values)
      ordered == SelectSeq(order.items, LAMBDA x : x \in valid)
  IN  \/ map.rows = <<>>
      \/ IF order.some THEN sortedRaises(valid \ Range(ordered)) ELSE sortedRaises(valid)

\* update_filter_list: [raised, items]; the list is cleared and "All" added before
\* anything can raise
update_filter_list(axis, smap, sorder, gmap, gorder) ==
  LET map == IF axis = "Sample" THEN smap ELSE gmap
      order == IF axis = "Sample" THEN sorder ELSE gorder
      labels == AxisLabels(map, order)
  IN  IF ~map.df THEN [raised |-> FALSE, items |-> <<All>>]
      ELSE IF AxisLabelsRaises(map, order) THEN [raised |-> TRUE, items |-> <<All>>]
      ELSE [raised |-> FALSE, items |-> <<All>> \o [i \in 1..Len(labels) |-> str(labels[i])]]

(***************************************************************************)
(* MeasurementTableLoader: the body shared by add_flowjo_data and          *)
(* load_flowjo_data.  A measurement workbook: name, readable (FALSE:       *)
(* read_excel or the percent coercion raises), columns (header texts) and  *)
(* rows of cells.  Percent-formatted columns are given by their float      *)
(* values.                                                                 *)
(***************************************************************************)
SampleNameCol == <<"S", "a", "m", "p", "l", "e", " ", "N", "a", "m", "e">>
WellCol == <<"W", "e", "l", "l">>
MeanMarker == Str(<<"M", "e", "a", "n">>)
SDMarker == Str(<<"S", "D">>)

\* Series.str.extract(r'_([A-H]\d{2})\.fcs$') on one specimen name
ExtractWell(name) ==
  LET s == name.v
      n == Len(s)
  IN  IF /\ name.t = "str"
         /\ n >= 8
         /\ SubSeq(s, n - 3, n) = <<".", "f", "c", "s">>
         /\ IsDigit(s[n - 4]) /\ IsDigit(s[n - 5])
         /\ s[n - 6] \in {"A", "B", "C", "D", "E", "F", "G", "H"}
         /\ s[n - 7] = "_"
      THEN Str(SubSeq(s, n - 6, n - 4))
      ELSE NaN

\* the frame both loaders append: first column renamed, Mean/SD rows dropped, Well added
ReadFlowData(file) ==
  LET kept == SelectSeq(file.rows, LAMBDA r : r[1] \notin {MeanMarker, SDMarker})
  IN  [columns |-> <<SampleNameCol>> \o Tail(file.columns) \o <<WellCol>>,
       rows |-> [i \in 1..Len(kept) |-> kept[i] \o <<ExtractWell(kept[i][1])>>]]

\* flow_data.columns[1:-1]
MetricColumns(flow_data) == SubSeq(flow_data.columns, 2, Len(flow_data.columns) - 1)

\* update_measurement_combo: the items of the combo box
update_measurement_combo(files) ==
  IF files = <<>> THEN <<>>
  ELSE sortedStr({c \in Range(MetricColumns(files[1])) :
                    \A k \in 2..Len(files) : c \in Range(MetricColumns(files[k]))})

\* list.pop(index) / takeItem(index), index counted from 0
Pop(s, index) == SubSeq(s, 1, index) \o SubSeq(s, index + 2, Len(s))

\* the loop with the rows of the selected items read once, before the first removal
RECURSIVE RemoveLoopStale(_, _)
RemoveLoopStale(st, items) ==
  IF items = <<>> THEN st
  ELSE LET index == Head(items) - 1
       IN  RemoveLoopStale([files |-> Pop(st.files, index), names |-> Pop(st.names, index),
                            list |-> Pop(st.list, index), ids |-> Pop(st.ids, index)],
                           Tail(items))

\* remove_flowjo_data: the loop over the selected items; ids are the widget items
RECURSIVE RemoveLoop(_, _)
RemoveLoop(st, items) ==
  IF items = <<>> THEN st
  ELSE LET index == (CHOOSE i \in 1..Len(st.ids) : st.ids[i] = Head(items)) - 1
       IN  RemoveLoop([files |-> Pop(st.files, index), names |-> Pop(st.names, index),
                       list |-> Pop(st.list, index), ids |-> Pop(st.ids, index)],
                      Tail(items))

\* load_flowjo_data: the loop over the chosen workbooks, stopped by the first that raises
RECURSIVE LoadLoop(_, _)
LoadLoop(st, filenames) ==
  IF filenames = <<>> THEN st
  ELSE LET file == Head(filenames)
       IN  IF ~file.readable THEN [st EXCEPT !.raised = TRUE]
           ELSE LoadLoop([files |-> Append(st.files, ReadFlowData(file)),
                          names |-> Append(st.names, file.name),
                          list |-> Append(st.list, file.name),
                          raised |-> FALSE],
                         Tail(filenames))

(***************************************************************************)
(* The workbooks the analyst can pick in the file dialogs.                 *)
(***************************************************************************)
S1 == Str(<<"S", "1">>)
S2 == Str(<<"S", "2">>)
S3 == Str(<<"S", "3">>)
G1 == Str(<<"G", "1">>)
G2 == Str(<<"G", "2">>)
Seven == IntLabel(<<"7">>)
Eight == IntLabel(<<"8">>)
RowA == Str(<<"A">>)
RowB == Str(<<"B">>)

Blanks(n) == [i \in 1..n |-> NaN]
\* a plate row of three columns (row label, two wells)
PlateRow(label, c1, c2) == <<label, c1, c2>>
\* a plate row of fourteen columns, the last one the order column
OrderedRow(label, c1, c2, o) == <<label, c1, c2>> \o Blanks(OrderCol - 3) \o <<o>>

Workbook(ncols, rows) == [readable |-> TRUE, ncols |-> ncols, rows |-> rows]
Unreadable == [readable |-> FALSE, ncols |-> 0, rows |-> <<>>]

\* no data row below the header row
NoRows == Workbook(OrderCol + 1, <<>>)
\* one data row, every well blank
BlankPlate == Workbook(3, <<PlateRow(RowA, NaN, NaN)>>)

SampleOrdered == Workbook(OrderCol + 1, <<OrderedRow(RowA, S1, S2, S2), OrderedRow(RowB, S1, NaN, S1)>>)
SamplePartial == Workbook(OrderCol + 1, <<OrderedRow(RowA, S1, S2, S2), OrderedRow(RowB, S3, NaN, NaN)>>)
SamplePlain == Workbook(3, <<PlateRow(RowA, S1, S2)>>)
SampleMixed == Workbook(3, <<PlateRow(RowA, S1, Seven)>>)

GroupOrdered == Workbook(OrderCol + 1, <<OrderedRow(RowA, G1, G2, G2), OrderedRow(RowB, G1, NaN, G1)>>)
GroupPlain == Workbook(3, <<PlateRow(RowA, G1, G1)>>)
GroupSparse == Workbook(3, <<PlateRow(RowA, G2, NaN), PlateRow(RowB, G1, NaN)>>)
GroupNumeric == Workbook(3, <<PlateRow(RowA, Seven, Eight)>>)
GroupMixed == Workbook(3, <<PlateRow(RowA, G1, Seven)>>)
\* an order column that lists a label no well of the plate carries
GroupListed ==
  Workbook(OrderCol + 1, <<OrderedRow(RowA, G1, G2, Str(<<"G", "3">>)), OrderedRow(RowB, NaN, NaN, G1)>>)

\* grids of up to MaxRows rows of two wells, and one grid of MaxCols wells in a row
MaxRows == 27
MaxCols == 100
TallGrid(n, fill, last) ==
  Workbook(3, [i \in 1..n |-> <<Str(<<chr(64 + i)>>)>> \o (IF i < n THEN fill ELSE last)])
PlateGrids ==
  {TallGrid(n, fill, last) : n \in 1..MaxRows, fill \in {<<S1, S2>>, <<NaN, NaN>>},
                             last \in {<<S1, S2>>, <<S1, NaN>>, <<NaN, S2>>, <<NaN, NaN>>}}
    \cup {Workbook(MaxCols + 1, <<[c \in 1..(MaxCols + 1) |-> IF c \in {2, MaxCols + 1} THEN S1 ELSE NaN]>>)}

SampleWorkbooks == {SampleOrdered, SamplePartial, SamplePlain, SampleMixed, BlankPlate, NoRows, Unreadable}
GroupWorkbooks == {GroupOrdered, GroupPlain, GroupSparse, GroupNumeric, GroupMixed, GroupListed,
                   BlankPlate, NoRows, Unreadable}

MetricM == <<"m">>
MetricA == <<"a">>
NameHeader == <<"N", "a", "m", "e">>
\* the specimen name prefix_<well>.fcs
Specimen(well) == Str(<<"x", "_">> \o well \o <<".", "f", "c", "s">>)
A01 == <<"A", "0", "1">>
A02 == <<"A", "0", "2">>
B01 == <<"B", "0", "1">>
Unstained == Str(<<"c", "t", "r", "l", ".", "f", "c", "s">>)

MeasurementWorkbook(name, columns, rows) ==
  [name |-> name, readable |-> TRUE, columns |-> columns, rows |-> rows]

\* two metrics in non-lexical header order, the summary rows of the acquisition software
FileOne ==
  MeasurementWorkbook("one.xlsx", <<NameHeader, MetricM, MetricA>>,
    << <<Specimen(A01), Num(10), Num(1)>>, <<Specimen(A02), Num(20), NaN>>,
       <<Specimen(B01), Num(30), Num(3)>>,
       <<MeanMarker, Num(20), Num(2)>>, <<SDMarker, Num(10), Num(1)>> >>)
\* one metric; a specimen whose name carries no well
FileTwo ==
  MeasurementWorkbook("two.xlsx", <<NameHeader, MetricM>>,
    << <<Specimen(A01), Num(40)>>, <<Unstained, Num(50)>>, <<Specimen(A01), NaN>> >>)
\* a well of the second plate row, which only some of the plate maps annotate
FileOff ==
  MeasurementWorkbook("off.xlsx", <<NameHeader, MetricM>>,
    << <<Specimen(B01), Num(60)>>, <<Unstained, Num(70)>> >>)
BrokenFile == [name |-> "broken.xlsx", readable |-> FALSE, columns |-> <<>>, rows |-> <<>>]

MeasurementWorkbooks == {FileOne, FileTwo, FileOff, BrokenFile}

\* the non-empty lists of at most n workbooks, for the multi-file dialog
RECURSIVE FileLists(_)
FileLists(n) ==
  IF n = 0 THEN {<<>>}
  ELSE LET shorter == FileLists(n - 1)
       IN  shorter \cup {Append(l, f) : l \in {x \in shorter : Len(x) = n - 1}, f \in MeasurementWorkbooks}

(***************************************************************************)
(* The state of the window.                                                *)
(***************************************************************************)
VARIABLES
  sample_map, sample_well_data, sample_order, sample_status,
  group_map, group_well_data, group_order, group_status,
  flow_data_files, flow_data_names, flow_files_list, flow_status,
  measurement_combo, current_measurement,
  sample_radio, filter_list, ui_enabled,
  filter_selected, output_type, XY_radio, include_header,
  handler, outcome, results, result, exported

sample_vars == <<sample_map, sample_well_data, sample_order, sample_status>>
group_vars == <<group_map, group_well_data, group_order, group_status>>
flow_vars == <<flow_data_files, flow_data_names, flow_files_list, flow_status,
               measurement_combo, current_measurement>>
option_vars == <<filter_selected, output_type, XY_radio, include_header>>
export_vars == <<results, result, exported>>
vars == <<sample_vars, group_vars, flow_vars, sample_radio, filter_list, ui_enabled,
          option_vars, handler, outcome, export_vars>>

NoResult == [some |-> FALSE, index |-> <<>>, columns |-> <<>>, cells |-> <<>>]
NothingExported == [written |-> FALSE, lines |-> <<>>]

\* __init__: nothing loaded, "Filter by Samples", "Individual Replicates", "Standard
\* Format" and "Include Header" checked, the filter list holding "All"
InitWindow ==
  /\ sample_map = None /\ sample_well_data = {} /\ sample_order = NoOrder
  /\ sample_status = "No Sample Map"
  /\ group_map = None /\ group_well_data = {} /\ group_order = NoOrder
  /\ group_status = "No Group Map"
  /\ flow_data_files = <<>> /\ flow_data_names = <<>> /\ flow_files_list = <<>>
  /\ flow_status = "No Flow Data"
  /\ measurement_combo = <<>> /\ current_measurement = <<>>
  /\ sample_radio = TRUE /\ filter_list = <<All>> /\ ui_enabled = FALSE
  /\ filter_selected = {All} /\ output_type = "individual" /\ XY_radio = FALSE
  /\ include_header = TRUE
  /\ handler = "init" /\ outcome = "ok"
  /\ result = NoResult /\ exported = NothingExported

Init == InitWindow /\ results = <<>>

\* update_ui_state: whether the analysis widgets and export buttons are enabled
all_loaded(smap, gmap, files) == smap.df /\ gmap.df /\ Len(files) > 0

(***************************************************************************)
(* The plate-map handlers.                                                 *)
(***************************************************************************)
load_sample_map(df) ==
  LET order == ReadOrder(df)
      parsed == process_plate_map(df)
      refresh == update_filter_list("Sample", parsed.map, order, group_map, group_order)
  IN  /\ handler' = "load_sample_map"
      /\ UNCHANGED <<group_vars, flow_vars, sample_radio, option_vars, export_vars>>
      /\ IF ~df.readable
         THEN /\ outcome' = "error" /\ sample_status' = "LOAD ERROR"
              /\ UNCHANGED <<sample_map, sample_well_data, sample_order, filter_list, ui_enabled>>
         ELSE IF PlateMapRaises(df)
         THEN /\ sample_order' = order
              /\ outcome' = "error" /\ sample_status' = "LOAD ERROR"
              /\ UNCHANGED <<sample_map, sample_well_data, filter_list, ui_enabled>>
         ELSE /\ sample_order' = order
              /\ sample_map' = parsed.map /\ sample_well_data' = parsed.dict
              /\ IF sample_radio /\ refresh.raised
                 THEN /\ outcome' = "error" /\ sample_status' = "LOAD ERROR"
                      /\ filter_list' = refresh.items
                      /\ UNCHANGED ui_enabled
                 ELSE /\ outcome' = "ok" /\ sample_status' = "LOADED"
                      /\ filter_list' = IF sample_radio THEN refresh.items ELSE filter_list
                      /\ ui_enabled' = all_loaded(parsed.map, group_map, flow_data_files)

load_group_map(df) ==
  LET order == ReadOrder(df)
      parsed == process_plate_map(df)
      refresh == update_filter_list("Group", sample_map, sample_order, parsed.map, order)
  IN  /\ handler' = "load_group_map"
      /\ UNCHANGED <<sample_vars, flow_vars, sample_radio, option_vars, export_vars>>
      /\ IF ~df.readable
         THEN /\ outcome' = "error" /\ group_status' = "LOAD ERROR"
              /\ UNCHANGED <<group_map, group_well_data, group_order, filter_list, ui_enabled>>
         ELSE IF PlateMapRaises(df)
         THEN /\ group_order' = order
              /\ outcome' = "error" /\ group_status' = "LOAD ERROR"
              /\ UNCHANGED <<group_map, group_well_data, filter_list, ui_enabled>>
         ELSE /\ group_order' = order
              /\ group_map' = parsed.map /\ group_well_data' = parsed.dict
              /\ IF ~sample_radio /\ refresh.raised
                 THEN /\ outcome' = "error" /\ group_status' = "LOAD ERROR"
                      /\ filter_list' = refresh.items
                      /\ UNCHANGED ui_enabled
                 ELSE /\ outcome' = "ok" /\ group_status' = "LOADED"
                      /\ filter_list' = IF ~sample_radio THEN refresh.items ELSE filter_list
                      /\ ui_enabled' = all_loaded(sample_map, parsed.map, flow_data_files)

\* the analyst checks the other filter radio button: both toggled signals run
\* update_filter_list.  An exception that leaves a slot ends the program, so the
\* step exists only when the refresh returns.
toggle_filter_radio ==
  LET refresh == update_filter_list(IF sample_radio THEN "Group" ELSE "Sample",
                                    sample_map, sample_order, group_map, group_order)
  IN  /\ ~refresh.raised
      /\ sample_radio' = ~sample_radio
      /\ filter_list' = refresh.items
      /\ handler' = "update_filter_list" /\ outcome' = "ok"
      /\ UNCHANGED <<sample_vars, group_vars, flow_vars, ui_enabled, option_vars, export_vars>>

(***************************************************************************)
(* The measurement-file handlers.                                          *)
(***************************************************************************)
\* items of a combo box just filled: the first one becomes current
FirstItem(items) == IF items = <<>> THEN <<>> ELSE items[1]

add_flowjo_data(file) ==
  LET files == Append(flow_data_files, ReadFlowData(file))
      items == update_measurement_combo(files)
  IN  /\ Len(flow_data_files) < MaxFiles
      /\ handler' = "add_flowjo_data"
      /\ UNCHANGED <<sample_vars, group_vars, sample_radio, filter_list, option_vars, export_vars>>
      /\ IF ~file.readable
         THEN /\ outcome' = "error"
              /\ UNCHANGED <<flow_vars, ui_enabled>>
         ELSE /\ outcome' = "ok"
              /\ flow_data_files' = files
              /\ flow_data_names' = Append(flow_data_names, file.name)
              /\ flow_files_list' = Append(flow_files_list, file.name)
              /\ flow_status' = "LOADED"
              /\ measurement_combo' = items /\ current_measurement' = FirstItem(items)
              /\ ui_enabled' = all_loaded(sample_map, group_map, files)

\* selected: the rows selected in the file list (the button is enabled only with a
\* selection); selectedItems() is walked in list order
remove_flowjo_data(selected) ==
  LET n == Len(flow_files_list)
      items == SelectSeq([i \in 1..n |-> i], LAMBDA i : i \in selected)
      left == RemoveLoop([files |-> flow_data_files, names |-> flow_data_names,
                          list |-> flow_files_list, ids |-> [i \in 1..n |-> i]], items)
      combo == update_measurement_combo(left.files)
  IN  /\ selected # {}
      /\ handler' = "remove_flowjo_data" /\ outcome' = "ok"
      /\ flow_data_files' = left.files
      /\ flow_data_names' = left.names
      /\ flow_files_list' = left.list
      /\ flow_status' = IF Len(left.files) > 0 THEN "LOADED" ELSE "No Flow Data"
      /\ measurement_combo' = combo /\ current_measurement' = FirstItem(combo)
      /\ ui_enabled' = all_loaded(sample_map, group_map, left.files)
      /\ UNCHANGED <<sample_vars, group_vars, sample_radio, filter_list, option_vars, export_vars>>

load_flowjo_data(filenames) ==
  LET loaded == LoadLoop([files |-> <<>>, names |-> <<>>, list |-> <<>>, raised |-> FALSE],
                         filenames)
      measurements == MetricColumns(loaded.files[1])
  IN  /\ filenames # <<>>
      /\ handler' = "load_flowjo_data"
      /\ flow_data_files' = loaded.files
      /\ flow_data_names' = loaded.names
      /\ flow_files_list' = loaded.list
      /\ UNCHANGED <<sample_vars, group_vars, sample_radio, filter_list, option_vars, export_vars>>
      /\ IF loaded.raised
         THEN /\ outcome' = "error" /\ flow_status' = "LOAD ERROR"
              /\ UNCHANGED <<measurement_combo, current_measurement, ui_enabled>>
         ELSE /\ outcome' = "ok" /\ flow_status' = "LOADED"
              /\ measurement_combo' = measurements
              /\ current_measurement' = FirstItem(measurements)
              /\ ui_enabled' = all_loaded(sample_map, group_map, loaded.files)

(***************************************************************************)
(* process_data: the join.                                                 *)
(* Metric readings are whole numbers of hundredths, the resolution that    *)
(* round(2) keeps.                                                         *)
(***************************************************************************)
\* a result table: index (row labels), columns (texts), cells (row by row)
Table(index, columns, cells) == [some |-> TRUE, index |-> index, columns |-> columns, cells |-> cells]

\* merge(map, on='Well', how='left') and the rename of Value: the label of one well
\* (a missing Well matches nothing)
Lookup(map, well) ==
  LET hits == {i \in 1..Len(map.rows) : map.rows[i].Well = well}
  IN  IF hits = {} THEN NaN ELSE map.rows[CHOOSE i \in hits : TRUE].Value

\* merge raises KeyError('Well') on the column-less frame pd.DataFrame([])
MergeRaises(map) == map.rows = <<>>

\* pd.to_numeric(errors='coerce').round(2) on one cell
to_numeric(cell) == IF cell.t = "num" THEN cell ELSE NaN

HasColumn(flow_data, name) == name \in Range(flow_data.columns)
ColumnOf(flow_data, name) == CHOOSE i \in 1..Len(flow_data.columns) : flow_data.columns[i] = name

\* merged_data after both merges, with the chosen metric made numeric
MergedData(flow_data, smap, gmap, measurement) ==
  [i \in 1..Len(flow_data.rows) |->
     LET row == flow_data.rows[i]
         well == row[Len(row)]
     IN  [Well |-> well,
          Sample |-> Lookup(smap, well),
          Group |-> Lookup(gmap, well),
          value |-> IF HasColumn(flow_data, measurement)
                    THEN to_numeric(row[ColumnOf(flow_data, measurement)]) ELSE NaN]]

\* Series.isin(selected_options): the options are the texts of the list items
isin(label, options) == label.t = "str" /\ label.v \in options

\* lines 189-199: the label filter
ApplyFilter(rows, selected, by_sample) ==
  LET selected_options == IF selected = {} THEN {All} ELSE selected
  IN  IF All \in selected_options THEN rows
      ELSE SelectSeq(rows, LAMBDA r : isin(IF by_sample THEN r.Sample ELSE r.Group, selected_options))

(***************************************************************************)
(* process_data: group order and aggregation.                              *)
(***************************************************************************)
\* lines 205-212 and 254-261: unique_groups
UniqueGroups(rows, gorder) ==
  LET valid_groups == {str(rows[i].Group) : i \in 1..Len(rows)}
      ordered_groups == SelectSeq(gorder.items, LAMBDA g : str(g) \in valid_groups)
      remaining_groups == sortedStr(valid_groups \ {str(g) : g \in Range(ordered_groups)})
  IN  IF gorder.some
      THEN ordered_groups \o [i \in 1..Len(remaining_groups) |-> Str(remaining_groups[i])]
      ELSE [i \in 1..Len(remaining_groups) |-> Str(remaining_groups[i])]

\* groupby drops the rows whose Sample or Group is missing
HasPair(r) == notna(r.Sample) /\ notna(r.Group)

\* groupby(['Sample', 'Group']).cumcount() of row i (missing for a row without a pair)
Replicate(rows, i) ==
  Cardinality({j \in 1..(i - 1) : rows[j].Sample = rows[i].Sample /\ rows[j].Group = rows[i].Group})

\* the order pandas sorts group keys in: numbers before text
PandasLess(x, y) == IF x.t = y.t THEN Less(x, y) ELSE x.t = "int"

RECURSIVE PandasSorted(_)
PandasSorted(S) ==
  IF S = {} THEN <<>>
  ELSE LET m == CHOOSE x \in S : \A y \in S : y = x \/ PandasLess(x, y)
       IN  <<m>> \o PandasSorted(S \ {m})

Max(S) == CHOOSE x \in S : \A y \in S : y <= x

\* int(merged_data['Replicate'].max() + 1) raises ValueError when no row has a
\* replicate number (no row at all, or none with both a Sample and a Group)
IndividualRaises(rows) == \A i \in 1..Len(rows) : ~HasPair(rows[i])

\* pivot_table(aggfunc='first', dropna=True) keeps the readings that are not missing
Kept(rows) == {i \in 1..Len(rows) : HasPair(rows[i]) /\ notna(rows[i].value)}

\* line 229: max_replicates
MaxReplicates(rows) == Max({Replicate(rows, i) : i \in {k \in 1..Len(rows) : HasPair(rows[k])}}) + 1

\* lines 230-236: new_columns, the (group, replicate) pairs that the pivot has
NewColumns(unique_groups, max_replicates, pivot_columns) ==
  Concat([g \in 1..Len(unique_groups) |->
            SelectSeq([rep \in 1..max_replicates |-> <<unique_groups[g], rep - 1>>],
                      LAMBDA c : c \in pivot_columns)])

\* the first reading of one sample under one (group, replicate) column
PivotCell(rows, s, c) ==
  LET at == {i \in Kept(rows) : rows[i].Sample = s /\ rows[i].Group = c[1] /\ Replicate(rows, i) = c[2]}
  IN  IF at = {} THEN NaN ELSE rows[CHOOSE i \in at : TRUE].value

\* lines 237-238: the pivot reindexed to new_columns and its columns renamed
Reindexed(rows, pivot_index, new_columns) ==
  Table(pivot_index,
        [k \in 1..Len(new_columns) |-> str(new_columns[k][1])],
        [r \in 1..Len(pivot_index) |->
           [k \in 1..Len(new_columns) |-> PivotCell(rows, pivot_index[r], new_columns[k])]])

\* lines 214-239: the replicate table before the sample order is applied
IndividualTable(rows, gorder) ==
  Reindexed(rows,
            PandasSorted({rows[i].Sample : i \in Kept(rows)}),
            NewColumns(UniqueGroups(rows, gorder), MaxReplicates(rows),
                       {<<rows[i].Group, Replicate(rows, i)>> : i \in Kept(rows)}))

RECURSIVE Sum(_)
Sum(s) == IF s = <<>> THEN 0 ELSE Head(s) + Sum(Tail(s))

\* round(total / n, 2) in hundredths, ties to even
RoundDiv(total, n) ==
  LET q == total \div n
      r == total % n
  IN  IF 2 * r < n THEN q ELSE IF 2 * r > n THEN q + 1 ELSE IF q % 2 = 0 THEN q ELSE q + 1

\* the readings of one (Sample, Group) pair that are not missing, in row order
Readings(rows, s, g) ==
  LET of == SelectSeq(rows, LAMBDA r : r.Sample = s /\ r.Group = g /\ notna(r.value))
  IN  [i \in 1..Len(of) |-> of[i].value.v[1]]

\* grouped.mean().round(2)
MeanCell(xs) == IF xs = <<>> THEN NaN ELSE Num(RoundDiv(Sum(xs), Len(xs)))

\* grouped.std() / stats.sem(nan_policy='omit'): missing below two readings,
\* otherwise the statistic of these readings (kept symbolic)
ErrorCell(xs, kind) == IF Len(xs) < 2 THEN NaN ELSE [t |-> kind, v |-> xs]

Suffix(kind) == IF kind = "sd" THEN <<"_", "S", "D">> ELSE <<"_", "S", "E", "M">>
MeanSuffix == <<"_", "M", "e", "a", "n">>

\* error_label is assigned in the SD branch only (line 247): the first pass of the
\* loop at line 266 raises NameError under "Mean & SEM"
MeanRaises(rows, gorder, kind) == kind = "sem" /\ UniqueGroups(rows, gorder) # <<>>

\* the (Sample, Group) keys of grouped
Pairs(rows) == {<<rows[i].Sample, rows[i].Group>> : i \in {k \in 1..Len(rows) : HasPair(rows[k])}}

\* the keys of new_data[mean_col]: the samples of the group, in groupby order
SamplesOf(rows, g) == PandasSorted({p[1] : p \in {q \in Pairs(rows) : q[2] = g}})

\* lines 266-275: the columns of new_data, two per group of unique_groups
MeanColumns(unique_groups, kind) ==
  Concat([k \in 1..Len(unique_groups) |->
            << [group |-> unique_groups[k], stat |-> "mean"],
               [group |-> unique_groups[k], stat |-> kind] >>])

\* line 277, DataFrame(dict of dicts): the union of the keys in order of appearance
MeanIndex(rows, unique_groups) ==
  unique(Concat([k \in 1..Len(unique_groups) |-> SamplesOf(rows, unique_groups[k])]))

\* lines 268-275: one cell of new_data
MeanCellAt(rows, s, c, kind) ==
  IF <<s, c.group>> \notin Pairs(rows) THEN NaN
  ELSE IF c.stat = "mean" THEN MeanCell(Readings(rows, s, c.group))
  ELSE ErrorCell(Readings(rows, s, c.group), kind)

\* line 277: result = pd.DataFrame(new_data)
MeanFrame(rows, index, new_columns, kind) ==
  Table(index,
        [k \in 1..Len(new_columns) |->
           str(new_columns[k].group) \o (IF new_columns[k].stat = "mean" THEN MeanSuffix ELSE Suffix(kind))],
        [r \in 1..Len(index) |->
           [k \in 1..Len(new_columns) |-> MeanCellAt(rows, index[r], new_columns[k], kind)]])

\* lines 263-277 for a given unique_groups
MeanTableOf(rows, unique_groups, kind) ==
  MeanFrame(rows, MeanIndex(rows, unique_groups), MeanColumns(unique_groups, kind), kind)

\* lines 241-278: the mean/dispersion table before the sample order is applied
MeanTable(rows, gorder, kind) == MeanTableOf(rows, UniqueGroups(rows, gorder), kind)

\* the declared samples first and the other rows after them
AppendUnlistedSamples(table, sorder) ==
  LET row_order == SelectSeq(sorder.items, LAMBDA x : x \in Range(table.index))
                     \o SelectSeq(table.index, LAMBDA x : x \notin Range(sorder.items))
      row_of(x) == CHOOSE r \in 1..Len(table.index) : table.index[r] = x
  IN  Table(row_order, table.columns, [r \in 1..Len(row_order) |-> table.cells[row_of(row_order[r])]])

\* lines 280-283: result.reindex(valid_order)
ApplySampleOrder(table, sorder) ==
  LET valid_order == SelectSeq(sorder.items, LAMBDA x : x \in Range(table.index))
      row_of(x) == CHOOSE r \in 1..Len(table.index) : table.index[r] = x
  IN  IF sorder.some
      THEN Table(valid_order, table.columns, [r \in 1..Len(valid_order) |-> table.cells[row_of(valid_order[r])]])
      ELSE table

\* a pass of the loop at line 154 that ends without a table
Stop(status) == [status |-> status, table |-> Table(<<>>, <<>>, <<>>)]

\* lines 156-187: what the two merges and their checks end in
JoinStatus(merged, smap, gmap) ==
  IF MergeRaises(smap) THEN "raise"
  ELSE IF \A i \in 1..Len(merged) : isna(merged[i].Sample) THEN "no_sample"
  ELSE IF MergeRaises(gmap) THEN "raise"
  ELSE IF \A i \in 1..Len(merged) : isna(merged[i].Group) THEN "no_group"
  ELSE "ok"

\* lines 203-283: the table of the filtered rows
Aggregate(rows, sorder, gorder, mode) ==
  IF mode = "individual"
  THEN IF IndividualRaises(rows) THEN Stop("raise")
       ELSE [status |-> "ok", table |-> ApplySampleOrder(IndividualTable(rows, gorder), sorder)]
  ELSE IF MeanRaises(rows, gorder, mode) THEN Stop("raise")
       ELSE [status |-> "ok", table |-> ApplySampleOrder(MeanTable(rows, gorder, mode), sorder)]

\* lines 156-283 on merged_data
ProcessMerged(merged, has_column, smap, sorder, gmap, gorder, selected, by_sample, mode) ==
  IF JoinStatus(merged, smap, gmap) # "ok" THEN Stop(JoinStatus(merged, smap, gmap))
  ELSE IF ~has_column THEN Stop("raise")
  ELSE Aggregate(ApplyFilter(merged, selected, by_sample), sorder, gorder, mode)

\* one pass of the loop at line 154: [status, table], status one of "ok",
\* "no_sample", "no_group" (the two warnings) and "raise" (an exception)
ProcessFile(flow_data, smap, sorder, gmap, gorder, measurement, selected, by_sample, mode) ==
  ProcessMerged(MergedData(flow_data, smap, gmap, measurement), HasColumn(flow_data, measurement),
                smap, sorder, gmap, gorder, selected, by_sample, mode)

\* the loop at line 154: the per-file results up to and including the first pass
\* that does not end "ok"
RECURSIVE ProcessFiles(_, _, _, _, _, _, _, _, _)
ProcessFiles(files, smap, sorder, gmap, gorder, measurement, selected, by_sample, mode) ==
  IF files = <<>> THEN <<>>
  ELSE LET first == ProcessFile(Head(files), smap, sorder, gmap, gorder, measurement, selected, by_sample, mode)
       IN  IF first.status # "ok" THEN <<first>>
           ELSE <<first>> \o ProcessFiles(Tail(files), smap, sorder, gmap, gorder,
                                          measurement, selected, by_sample, mode)

(***************************************************************************)
(* reshape_to_xy_format.                                                   *)
(***************************************************************************)
\* reset_index + pd.melt + the Sample_Group column: one entry per cell, column by column
Melted(df) ==
  Concat([j \in 1..Len(df.columns) |->
            [i \in 1..Len(df.index) |->
               [Sample_Group |-> str(df.index[i]) \o <<"_">> \o df.columns[j],
                Value |-> df.cells[i][j]]]])

\* melted[melted['Sample_Group'] == combined]['Value'].values
ValuesOf(melted, combined) ==
  LET hit == SelectSeq(melted, LAMBDA e : e.Sample_Group = combined)
  IN  [i \in 1..Len(hit) |-> hit[i].Value]

\* a width taken from the first frame alone
FirstFileReplicates(melted_list, combined) == Len(ValuesOf(melted_list[1], combined))

\* the first pass: max_replicates_by_group[combined]
MaxReplicatesByGroup(melted_list, combined) ==
  Max({Len(ValuesOf(melted_list[k], combined)) : k \in 1..Len(melted_list)})

\* the RangeIndex label of row k
RangeLabel(k) == IntLabel(Decimal(k - 1))

\* line 666: all_columns
AllColumns(melted_list) ==
  sortedStr(UNION {{e.Sample_Group : e \in Range(melted_list[k])} : k \in 1..Len(melted_list)})

\* lines 669-686: row_data of one file, every column padded to its global maximum
RowData(melted_list, all_columns, k) ==
  Concat([c \in 1..Len(all_columns) |->
            ValuesOf(melted_list[k], all_columns[c])
              \o Blanks(MaxReplicatesByGroup(melted_list, all_columns[c])
                          - Len(ValuesOf(melted_list[k], all_columns[c])))])

\* lines 692-703: final_columns
FinalColumns(melted_list, all_columns) ==
  Concat([c \in 1..Len(all_columns) |->
            [r \in 1..MaxReplicatesByGroup(melted_list, all_columns[c]) |-> all_columns[c]]])

\* lines 688-705: the frame of the rows under final_columns
XYFrame(melted_list, all_columns) ==
  Table([k \in 1..Len(melted_list) |-> RangeLabel(k)], FinalColumns(melted_list, all_columns),
        [k \in 1..Len(melted_list) |-> RowData(melted_list, all_columns, k)])

XYOfMelted(melted_list) == XYFrame(melted_list, AllColumns(melted_list))

reshape_to_xy_format(df_list) == XYOfMelted([k \in 1..Len(df_list) |-> Melted(df_list[k])])

(***************************************************************************)
(* process_data as a whole: [outcome, result].                             *)
(***************************************************************************)
Failure(kind) == [outcome |-> kind, results |-> <<>>, result |-> NoResult]

\* lines 285-298: what the loop's passes end in; results is the list handed on at
\* line 288 (nothing when the call returns before)
Finish(passes, xy) ==
  IF passes[Len(passes)].status = "no_sample" THEN Failure("no_sample")
  ELSE IF passes[Len(passes)].status = "no_group" THEN Failure("no_group")
  ELSE IF passes[Len(passes)].status = "raise" THEN Failure("error")
  ELSE [outcome |-> "ok",
        results |-> [k \in 1..Len(passes) |-> passes[k].table],
        result |-> IF xy THEN reshape_to_xy_format([k \in 1..Len(passes) |-> passes[k].table])
                   ELSE passes[1].table]

process_data(smap, sorder, gmap, gorder, files, measurement, selected, by_sample, mode, xy) ==
  IF ~all_loaded(smap, gmap, files) THEN Failure("not_loaded")
  ELSE IF measurement = <<>> THEN Failure("no_measurement")
  ELSE Finish(ProcessFiles(files, smap, sorder, gmap, gorder, measurement, selected, by_sample, mode), xy)

(***************************************************************************)
(* The export handlers.  The analyst's settings of the selector, the       *)
(* filter list, the radio buttons and the check box are chosen with the    *)
(* click; the buttons are enabled by update_ui_state.                      *)
(***************************************************************************)
EmptyField(f) == f.t = "nan" \/ (f.t = "str" /\ f.v = <<>>)

\* DataFrame.to_csv(index=, header=): the lines as lists of fields; a missing cell is
\* written as the empty field, a number by its value
to_csv(table, index, header) ==
  LET \* the csv writer quotes a row that is one empty field
      header_line == IF index /\ table.columns = <<>> THEN <<Str(<<"QUOTE", "QUOTE">>)>>
                     ELSE (IF index THEN <<Str(<<>>)>> ELSE <<>>)
                            \o [k \in 1..Len(table.columns) |-> Str(table.columns[k])]
      data_line(r) == (IF index THEN <<Str(str(table.index[r]))>> ELSE <<>>) \o table.cells[r]
  IN  (IF header THEN <<header_line>> ELSE <<>>) \o [r \in 1..Len(table.index) |-> data_line(r)]

\* line 747: the lines that are not blank once stripped (a tab is white space)
StripBlankLines(lines) == SelectSeq(lines, LAMBDA l : \E k \in 1..Len(l) : ~EmptyField(l[k]))

copy_to_clipboard(measurement, selected, mode, xy, header) ==
  \E got \in {process_data(sample_map, sample_order, group_map, group_order, flow_data_files,
                           measurement, selected, sample_radio, mode, xy)},
     include_index \in {~xy} :
      /\ ui_enabled
      /\ current_measurement' = measurement /\ filter_selected' = selected
      /\ output_type' = mode /\ XY_radio' = xy /\ include_header' = header
      /\ handler' = "copy_to_clipboard"
      /\ outcome' = got.outcome
      /\ results' = got.results /\ result' = got.result
      /\ exported' = IF got.result.some
                     THEN [written |-> TRUE, sep |-> "\t",
                           lines |-> StripBlankLines(to_csv(got.result, include_index, header))]
                     ELSE NothingExported
      /\ UNCHANGED <<sample_vars, group_vars, flow_data_files, flow_data_names, flow_files_list,
                     flow_status, measurement_combo, sample_radio, filter_list, ui_enabled>>

\* line 770: reshape_to_xy_format(result) walks a DataFrame, that is its column
\* labels, and raises AttributeError at df.copy() on the first one
SaveReshapeRaises(table) == table.columns # <<>>

\* chosen: whether the analyst names a destination in the save dialog
save_to_csv(measurement, selected, mode, xy, header, chosen) ==
  \E got \in {process_data(sample_map, sample_order, group_map, group_order, flow_data_files,
                           measurement, selected, sample_radio, mode, xy)} :
  \* without a column to walk the second reshape returns the empty frame
  \E written \in {IF xy THEN Table(<<>>, <<>>, <<>>) ELSE got.result} :
      /\ ui_enabled
      /\ current_measurement' = measurement /\ filter_selected' = selected
      /\ output_type' = mode /\ XY_radio' = xy /\ include_header' = header
      /\ handler' = "save_to_csv"
      /\ results' = got.results /\ result' = got.result
      /\ IF ~got.result.some
         THEN outcome' = got.outcome /\ exported' = NothingExported
         ELSE IF ~chosen
         THEN outcome' = "cancel" /\ exported' = NothingExported
         ELSE IF xy /\ SaveReshapeRaises(got.result)
         THEN outcome' = "error" /\ exported' = NothingExported
         ELSE /\ outcome' = "ok"
              \* index=isinstance(result.index, pd.MultiIndex): no result has such an index
              /\ exported' = [written |-> TRUE, sep |-> ",", lines |-> to_csv(written, FALSE, header)]
      /\ UNCHANGED <<sample_vars, group_vars, flow_data_files, flow_data_names, flow_files_list,
                     flow_status, measurement_combo, sample_radio, filter_list, ui_enabled>>

\* what the widgets let the analyst choose
Measurements == IF measurement_combo = <<>> THEN {<<>>} ELSE Range(measurement_combo)
Selections == {sel \in SUBSET Range(filter_list) : Cardinality(sel) <= MaxSelected}
OutputTypes == {"individual", "sd", "sem"}

(***************************************************************************)
(* Specifications.                                                         *)
(***************************************************************************)
NextMaps ==
  \/ \E df \in SampleWorkbooks : load_sample_map(df)
  \/ \E df \in GroupWorkbooks : load_group_map(df)
  \/ toggle_filter_radio

NextFlow ==
  \/ \E file \in MeasurementWorkbooks : add_flowjo_data(file)
  \/ \E selected \in SUBSET (1..Len(flow_files_list)) : remove_flowjo_data(selected)
  \/ \E filenames \in FileLists(MaxFiles) : load_flowjo_data(filenames)

\* the plate-map handlers and the filter radio buttons
SpecMaps == Init /\ [][NextMaps]_vars

\* the grid parser alone: the first sample map loaded into a fresh window
NextPlate == handler = "init" /\ \E df \in PlateGrids : load_sample_map(df)
SpecPlate == Init /\ [][NextPlate]_vars

\* the measurement-file handlers
SpecFlow == Init /\ [][NextFlow]_vars

NextExport ==
  \/ \E measurement \in Measurements, selected \in Selections, mode \in OutputTypes,
        xy \in BOOLEAN, header \in BOOLEAN :
       copy_to_clipboard(measurement, selected, mode, xy, header)
  \/ \E measurement \in Measurements, selected \in Selections, mode \in OutputTypes,
        xy \in BOOLEAN, header \in BOOLEAN, chosen \in BOOLEAN :
       save_to_csv(measurement, selected, mode, xy, header, chosen)

Next == NextMaps \/ NextFlow \/ NextExport

\* the whole window
Spec == Init /\ [][Next]_vars

\* the window once a sample map, a group map and measurement files are loaded: the
\* state that load_sample_map(sw), load_group_map(gw) and add_flowjo_data of each
\* file leave behind, with either filter radio button checked
InitLoaded ==
  \E sw \in SampleWorkbooks, gw \in GroupWorkbooks, by_sample \in BOOLEAN,
     books \in FileLists(MaxProcessFiles) :
    LET files == [k \in 1..Len(books) |-> ReadFlowData(books[k])]
        smap == process_plate_map(sw)
        gmap == process_plate_map(gw)
        refresh == update_filter_list(IF by_sample THEN "Sample" ELSE "Group",
                                      smap.map, ReadOrder(sw), gmap.map, ReadOrder(gw))
        items == update_measurement_combo(files)
    IN  /\ sw.readable /\ ~PlateMapRaises(sw)
        /\ gw.readable /\ ~PlateMapRaises(gw)
        /\ books # <<>> /\ \A k \in 1..Len(books) : books[k].readable
        /\ ~refresh.raised
        /\ sample_map = smap.map /\ sample_well_data = smap.dict
        /\ sample_order = ReadOrder(sw) /\ sample_status = "LOADED"
        /\ group_map = gmap.map /\ group_well_data = gmap.dict
        /\ group_order = ReadOrder(gw) /\ group_status = "LOADED"
        /\ flow_data_files = files
        /\ flow_data_names = [k \in 1..Len(books) |-> books[k].name]
        /\ flow_files_list = [k \in 1..Len(books) |-> books[k].name]
        /\ flow_status = "LOADED"
        /\ measurement_combo = items /\ current_measurement = FirstItem(items)
        /\ sample_radio = by_sample /\ filter_list = refresh.items /\ ui_enabled = TRUE
        /\ filter_selected = {All} /\ output_type = "individual" /\ XY_radio = FALSE
        /\ include_header = TRUE
        /\ handler = "add_flowjo_data" /\ outcome = "ok"
        /\ results = <<>> /\ result = NoResult /\ exported = NothingExported

\* one export from a loaded window (an export changes nothing a later one reads)
NextProcess == handler = "add_flowjo_data" /\ NextExport

SpecProcess == InitLoaded /\ [][NextProcess]_vars

(***************************************************************************)
(* reshape_to_xy_format on its own: the list of per-file results is drawn  *)
(* from small frames and reshaped once.                                    *)
(***************************************************************************)
MaxXYFiles == 2

XYIndexes == {<<>>, <<S1>>, <<S1, S2>>, <<S2, S1>>}
XYColumns == {<<>>, <<str(G1)>>, <<str(G1), str(G1)>>, <<str(G1), str(G2)>>, <<str(G2), str(G1)>>}

\* the cell at (r, c): a reading that tells its place, or a missing one
XYCell(r, c, hole) == IF hole = <<r, c>> THEN NaN ELSE Num(10 * r + c)

XYFrames ==
  {Table(index, columns,
         [r \in 1..Len(index) |-> [c \in 1..Len(columns) |-> XYCell(r, c, hole)]]) :
     index \in XYIndexes, columns \in XYColumns, hole \in {<<0, 0>>, <<1, 1>>}}

RECURSIVE XYLists(_)
XYLists(n) ==
  IF n = 1 THEN {<<f>> : f \in XYFrames}
  ELSE LET shorter == XYLists(n - 1)
       IN  shorter \cup {Append(l, f) : l \in {x \in shorter : Len(x) = n - 1}, f \in XYFrames}

InitXY == InitWindow /\ results \in XYLists(MaxXYFiles)

reshape ==
  /\ handler = "init"
  /\ handler' = "reshape_to_xy_format" /\ outcome' = "ok"
  /\ result' = reshape_to_xy_format(results)
  /\ UNCHANGED <<sample_vars, group_vars, flow_vars, sample_radio, filter_list, ui_enabled,
                 option_vars, results, exported>>

SpecXY == InitXY /\ [][reshape]_vars

(***************************************************************************)
(* Properties of the loaders.                                              *)
(***************************************************************************)
\* the metric column set of a loaded file: every column except the specimen-name
\* column and the derived Well column
MetricSet(flow_data) == {c \in Range(flow_data.columns) : c \notin {SampleNameCol, WellCol}}

CommonMetrics == {c \in MetricSet(flow_data_files[1]) :
                    \A k \in 1..Len(flow_data_files) : c \in MetricSet(flow_data_files[k])}

\* C1: whenever at least one measurement file is loaded, the metric list offered in
\* the measurement selector is the intersection of the metric column sets of all
\* loaded files, in ascending lexical order.
C1_OfferedMetricsAreSortedIntersection ==
  flow_data_files # <<>> => measurement_combo = sortedStr(CommonMetrics)

\* C2: after a load_sample_map / load_group_map call that failed, the status of that
\* map is the error status and no map is held for that axis.
C2_FailedLoadLeavesMapUnset ==
  /\ (handler = "load_sample_map" /\ outcome = "error")
       => (sample_status = "LOAD ERROR" /\ sample_map = None)
  /\ (handler = "load_group_map" /\ outcome = "error")
       => (group_status = "LOAD ERROR" /\ group_map = None)

\* C3: a load_sample_map / load_group_map call that fails leaves the map, its well
\* dictionary and its declared order as they were before the call.
C3_FailedLoadLeavesStateUntouched ==
  [][/\ (handler' = "load_sample_map" /\ outcome' = "error")
          => UNCHANGED <<sample_map, sample_well_data, sample_order>>
     /\ (handler' = "load_group_map" /\ outcome' = "error")
          => UNCHANGED <<group_map, group_well_data, group_order>>]_vars

(***************************************************************************)
(* Claims about process_data and the export handlers, read off the state   *)
(* an export leaves behind.                                                *)
(***************************************************************************)
Exporting == handler \in {"copy_to_clipboard", "save_to_csv"}

\* merged_data of loaded file k after both joins, under the settings of the export
Joined(k) == MergedData(flow_data_files[k], sample_map, group_map, current_measurement)

\* the joined rows of file k that the label filter keeps
Filtered(k) == ApplyFilter(Joined(k), filter_selected, sample_radio)

AllSampleNull(k) == \A i \in 1..Len(Joined(k)) : isna(Joined(k)[i].Sample)
AllGroupNull(k) == \A i \in 1..Len(Joined(k)) : isna(Joined(k)[i].Group)

\* C4: an export over files of which one has a null Sample in every joined row ends
\* with the no-sample-matches outcome, one with a null Group in every joined row of a
\* file ends with the no-group-matches outcome, and when every file has a row with a
\* Sample and a row with a Group neither join outcome is raised.
C4_JoinErrors ==
  Exporting =>
    /\ (\E k \in 1..Len(flow_data_files) : AllSampleNull(k)) => outcome = "no_sample"
    /\ (\E k \in 1..Len(flow_data_files) : AllGroupNull(k)) => outcome = "no_group"
    /\ (\A k \in 1..Len(flow_data_files) : ~AllSampleNull(k) /\ ~AllGroupNull(k))
         => outcome \notin {"no_sample", "no_group"}

\* C5: in every aggregation mode, an export whose label filter removes every joined
\* row of a file ends without a result and writes nothing.
C5_EmptyFilterResultIsAnError ==
  (Exporting /\ \E k \in 1..Len(flow_data_files) : Joined(k) # <<>> /\ Filtered(k) = <<>>)
    => (~result.some /\ ~exported.written)

\* the data rows of the exported text
DataLines == IF include_header /\ exported.lines # <<>> THEN Tail(exported.lines) ELSE exported.lines

\* C6: whichever sink wrote it, a Standard export has one data row per row of the
\* result, starting with the sample name and followed by the row's cells, and an XY
\* export has no field besides the cells.
C6_SampleIndexIffStandard ==
  (Exporting /\ exported.written) =>
    IF ~XY_radio
    THEN /\ Len(DataLines) = Len(result.index)
         /\ \A r \in 1..Len(DataLines) :
              DataLines[r] = <<Str(str(result.index[r]))>> \o result.cells[r]
    ELSE \A r \in 1..Len(DataLines) : Len(DataLines[r]) <= Len(result.columns)

\* the combined key of the cell at row i, column j of a frame
XYKey(df, i, j) == str(df.index[i]) \o <<"_">> \o df.columns[j]

\* the cells <<column, row>> of a frame that fall under a key
XYCellsOf(df, key) ==
  {p \in (1..Len(df.columns)) \X (1..Len(df.index)) : XYKey(df, p[2], p[1]) = key}

XYKeys == UNION {{XYKey(results[k], p[2], p[1]) :
                    p \in (1..Len(results[k].columns)) \X (1..Len(results[k].index))} :
                 k \in 1..Len(results)}

\* the place of a cell among the cells of its key, column by column and row by row
XYRank(df, key, p) ==
  Cardinality({q \in XYCellsOf(df, key) : q[1] < p[1] \/ (q[1] = p[1] /\ q[2] <= p[2])})

\* the most cells any one frame has under a key
XYWidth(key) == Max({Cardinality(XYCellsOf(results[k], key)) : k \in 1..Len(results)})

\* where the block of a key starts in the columns of the result
XYFirst(key) == CHOOSE p \in 1..Len(result.columns) :
                  result.columns[p] = key /\ \A q \in 1..(p - 1) : result.columns[q] # key

\* C7: reshape_to_xy_format of N frames returns N rows; the columns are the union of
\* the combined keys in ascending order, each key in one block as wide as the most
\* cells a single frame has under it; row i holds, in the block of a key, frame i's
\* values under that key in appearance order and then only nulls, so every row is as
\* wide as the columns.
C7_XYShape ==
  handler = "reshape_to_xy_format" =>
    /\ Len(result.index) = Len(results) /\ Len(result.cells) = Len(results)
    /\ Range(result.columns) = XYKeys
    /\ \A p, q \in 1..Len(result.columns) :
         p < q => (result.columns[p] = result.columns[q]
                     \/ StrLess(result.columns[p], result.columns[q]))
    /\ \A key \in XYKeys :
         Cardinality({p \in 1..Len(result.columns) : result.columns[p] = key}) = XYWidth(key)
    /\ \A k \in 1..Len(results) :
         /\ Len(result.cells[k]) = Len(result.columns)
         /\ \A key \in XYKeys :
              /\ \A p \in XYCellsOf(results[k], key) :
                   result.cells[k][XYFirst(key) + XYRank(results[k], key, p) - 1]
                     = results[k].cells[p[2]][p[1]]
              /\ \A n \in (Cardinality(XYCellsOf(results[k], key)) + 1)..XYWidth(key) :
                   result.cells[k][XYFirst(key) + n - 1] = NaN

\* C7 witness: two frames reshaped, the first with two cells under a key and the
\* second with one, the second row padded with a null in that key's block.
C7_Witness ==
  /\ handler = "reshape_to_xy_format" /\ Len(results) = 2
  /\ \E key \in XYKeys :
       /\ Cardinality(XYCellsOf(results[1], key)) = 2
       /\ Cardinality(XYCellsOf(results[2], key)) = 1
       /\ results[2].cells[1][1] # NaN
       /\ result.columns[XYFirst(key) + 1] = key
       /\ result.cells[2][XYFirst(key)] # NaN
       /\ result.cells[2][XYFirst(key) + 1] = NaN

\* the string forms of the group labels observed among rows (a missing Group is no label)
ObservedGroups(rows) ==
  {str(rows[i].Group) : i \in {k \in 1..Len(rows) : notna(rows[k].Group)}}

\* the resolved group order of C10, as string forms: the declared labels that are
\* observed, in declared order, then the other observed labels in ascending order
ResolvedGroupOrder(rows) ==
  LET declared == SelectSeq(group_order.items, LAMBDA g : str(g) \in ObservedGroups(rows))
  IN  [i \in 1..Len(declared) |-> str(declared[i])]
        \o sortedStr(ObservedGroups(rows) \ {str(g) : g \in Range(group_order.items)})

\* the rows with both a Sample and a Group
Paired(rows) == {i \in 1..Len(rows) : HasPair(rows[i])}

\* the number of earlier rows with the (Sample, Group) pair of row i
ReplicateIndex(rows, i) ==
  Cardinality({j \in Paired(rows) : j < i /\ rows[j].Sample = rows[i].Sample
                                          /\ rows[j].Group = rows[i].Group})

\* the number of replicate columns of a group
GroupWidth(rows, g) ==
  Cardinality({ReplicateIndex(rows, i) : i \in {k \in Paired(rows) : str(rows[k].Group) = g}})

\* C8: the result of an Individual export has one row per distinct Sample of the
\* joined rows and, for each group in resolved order, that group's replicate columns
\* side by side under the bare group name; the cell of a joined row's Sample, Group
\* and replicate index (the number of earlier rows with its pair) is that row's reading.
C8_IndividualReplicateTable ==
  (Exporting /\ output_type = "individual" /\ ~XY_radio /\ result.some) =>
    /\ Range(result.index) = {Filtered(1)[i].Sample : i \in Paired(Filtered(1))}
    /\ Len(result.index) = Cardinality(Range(result.index))
    /\ result.columns =
         Concat([k \in 1..Len(ResolvedGroupOrder(Filtered(1))) |->
                   [r \in 1..GroupWidth(Filtered(1), ResolvedGroupOrder(Filtered(1))[k]) |->
                      ResolvedGroupOrder(Filtered(1))[k]]])
    /\ \A i \in Paired(Filtered(1)) :
         \E r \in 1..Len(result.index), c \in 1..Len(result.columns) :
           /\ result.index[r] = Filtered(1)[i].Sample
           /\ result.columns[c] = str(Filtered(1)[i].Group)
           /\ Cardinality({d \in 1..(c - 1) : result.columns[d] = result.columns[c]})
                = ReplicateIndex(Filtered(1), i)
           /\ result.cells[r][c] = Filtered(1)[i].value

\* C9: a Mean & SD or Mean & SEM export over files that all join yields a result
\* whose columns are, for each group of the filtered joined rows in resolved order,
\* <Group>_Mean followed by <Group>_SD or <Group>_SEM, and nothing else.
C9_MeanColumnPairs ==
  (/\ Exporting /\ output_type \in {"sd", "sem"} /\ ~XY_radio
   /\ \A k \in 1..Len(flow_data_files) :
        JoinStatus(Joined(k), sample_map, group_map) = "ok" /\ Filtered(k) # <<>>) =>
    /\ result.some
    /\ result.columns =
         Concat([k \in 1..Len(ResolvedGroupOrder(Filtered(1))) |->
                   << ResolvedGroupOrder(Filtered(1))[k] \o MeanSuffix,
                      ResolvedGroupOrder(Filtered(1))[k] \o Suffix(output_type) >>])

\* C10: the groups of the Mean columns of a Mean & SD result come in the resolved
\* order: the declared labels that are observed among the joined rows, in declared
\* order, then every other observed label in ascending order of its string form (all
\* observed labels in ascending order when no order is declared).
C10_ResolvedGroupOrder ==
  (Exporting /\ output_type = "sd" /\ ~XY_radio /\ result.some) =>
    [k \in 1..(Len(result.columns) \div 2) |-> result.columns[2 * k - 1]]
      = [k \in 1..Len(ResolvedGroupOrder(Filtered(1))) |->
           ResolvedGroupOrder(Filtered(1))[k] \o MeanSuffix]

\* the table of file k before the sample order is applied
Aggregated(k) ==
  IF output_type = "individual" THEN IndividualTable(Filtered(k), group_order)
  ELSE MeanTable(Filtered(k), group_order, output_type)

\* C11: with a declared sample order, the rows of each per-file result are the
\* declared labels that are rows of the aggregated table, in declared order; a
\* sample of the data that the order does not list is no row.
C11_RowsFollowDeclaredSampleOrder ==
  (Exporting /\ sample_order.some) =>
    \A k \in 1..Len(results) :
      /\ results[k].index
           = SelectSeq(sample_order.items, LAMBDA x : x \in Range(Aggregated(k).index))
      /\ \A r \in 1..Len(results[k].index) :
           \E q \in 1..Len(Aggregated(k).index) :
             /\ Aggregated(k).index[q] = results[k].index[r]
             /\ Aggregated(k).cells[q] = results[k].cells[r]

\* C11 witness: an export under a declared sample order that lists S2 before S1 (or
\* S2 alone) and drops a sample of the aggregated table.
C11_Witness ==
  /\ Exporting /\ sample_order.some /\ results # <<>>
  /\ results[1].index # <<>>
  /\ \E x \in Range(Aggregated(1).index) : x \notin Range(results[1].index)

\* the labels that a map holds in the wells of the plate proper, the order column aside
PlateLabels(map) ==
  {map.rows[i].Value : i \in {k \in 1..Len(map.rows) :
                               SubSeq(map.rows[k].Well.v, 2, 3) # Format02d(OrderCol)}}

\* the declared labels of an order that no well of the plate carries
DeclaredOnly(map, order) == {x \in Range(order.items) : x \notin PlateLabels(map)}

\* C12: a label of a declared order that the data lacks is in no resolved order: a
\* declared group that no filtered joined row carries names no column of a per-file
\* result, a declared sample that no filtered joined row carries is no row of it, and
\* a declared label that no well of the plate carries is no entry of the filter list.
C12_DeclaredButAbsentNeverShown ==
  /\ Exporting =>
       \A k \in 1..Len(results) :
         /\ \A g \in Range(group_order.items) :
              (\A i \in 1..Len(Filtered(k)) : Filtered(k)[i].Group # g)
                => \A c \in 1..Len(results[k].columns) :
                     results[k].columns[c] \notin {str(g), str(g) \o MeanSuffix,
                                                   str(g) \o Suffix(output_type)}
         /\ \A s \in Range(sample_order.items) :
              (\A i \in 1..Len(Filtered(k)) : Filtered(k)[i].Sample # s)
                => s \notin Range(results[k].index)
  /\ IF sample_radio
     THEN sample_map.df => \A x \in DeclaredOnly(sample_map, sample_order) :
                             str(x) \notin Range(filter_list)
     ELSE group_map.df => \A x \in DeclaredOnly(group_map, group_order) :
                            str(x) \notin Range(filter_list)

Uppercase == {chr(n) : n \in 65..90}

\* the cells right of column 0, as <<row index, column index>>, that hold a value
FilledCells(df) ==
  {rc \in (0..(Len(df.rows) - 1)) \X (1..(df.ncols - 1)) : notna(df.rows[rc[1] + 1][rc[2] + 1])}

\* C13: every well id that process_plate_map emits is one letter A-Z followed by exactly
\* two digits, the rows of the map stand one to one for the non-blank cells of the grid
\* (distinct cells get distinct ids, a blank cell gets none) and every non-blank cell
\* right of column 0 gets the id of its row and column with its value.
C13_WellIdShape ==
  [][\A df \in PlateGrids :
       (load_sample_map(df) /\ outcome' = "ok") =>
         LET wells == sample_map'.rows
         IN  /\ \A i \in 1..Len(wells) :
                  /\ Len(wells[i].Well.v) = 3
                  /\ wells[i].Well.v[1] \in Uppercase
                  /\ IsDigit(wells[i].Well.v[2]) /\ IsDigit(wells[i].Well.v[3])
                  /\ notna(wells[i].Value)
             /\ Len(wells) = Cardinality(FilledCells(df))
             /\ \A i, j \in 1..Len(wells) : i # j => wells[i].Well # wells[j].Well
             /\ \A rc \in FilledCells(df) :
                  \E i \in 1..Len(wells) :
                    /\ wells[i].Well.v[1] = chr(65 + rc[1])
                    /\ wells[i].Value = df.rows[rc[1] + 1][rc[2] + 1]]_vars

\* a loaded file without the rows whose specimen name yields no well
WithoutWellLess(flow_data) ==
  [flow_data EXCEPT !.rows = SelectSeq(@, LAMBDA r : notna(r[Len(r)]))]

\* C14: a measurement row whose specimen name does not end in a well has a null well,
\* is joined to no sample and no group, and leaves no trace in the result: in every
\* mode and layout an export returns the table it returns for the same files without
\* those rows.
C14_WellLessRowsAreIgnored ==
  Exporting =>
    /\ \A k \in 1..Len(flow_data_files) : \A i \in 1..Len(Joined(k)) :
         LET row == flow_data_files[k].rows[i]
         IN  ExtractWell(row[1]) = NaN
               => (isna(row[Len(row)]) /\ isna(Joined(k)[i].Sample) /\ isna(Joined(k)[i].Group))
    /\ result = process_data(sample_map, sample_order, group_map, group_order,
                             [k \in 1..Len(flow_data_files) |-> WithoutWellLess(flow_data_files[k])],
                             current_measurement, filter_selected, sample_radio,
                             output_type, XY_radio).result

\* the label of a joined row on the axis of the checked filter radio button
AxisLabel(r) == IF sample_radio THEN r.Sample ELSE r.Group

\* the joined rows of file k whose label is shown selected in the filter list
LabelKept(k) ==
  IF filter_selected = {} \/ All \in filter_selected THEN Joined(k)
  ELSE SelectSeq(Joined(k), LAMBDA r : notna(AxisLabel(r)) /\ str(AxisLabel(r)) \in filter_selected)

\* C15: an export over a selection without "All" keeps exactly the joined rows whose
\* label on the filtered axis is one of the selected entries of the filter list, one
\* with "All" or nothing selected keeps every joined row, and each per-file result is
\* the table of those rows.
C15_FilterKeepsSelectedLabels ==
  Exporting =>
    \A k \in 1..Len(flow_data_files) :
      /\ Filtered(k) = LabelKept(k)
      /\ k <= Len(results)
           => results[k] = Aggregate(LabelKept(k), sample_order, group_order, output_type).table

\* C16: Save to CSV in XY layout, with a result from process_data and a destination
\* chosen, succeeds and writes the table that process_data returned, the table that
\* Copy to Clipboard exports, with no row for the sample index.
C16_XYSaveWritesTheXYResult ==
  (handler = "save_to_csv" /\ XY_radio /\ result.some /\ outcome # "cancel")
    => /\ outcome = "ok"
       /\ exported.written
       /\ exported.lines = to_csv(result, FALSE, include_header)

\* C17: in Standard layout an export over several files returns what it returns for
\* the first file alone: the first file's table, whatever the other files hold.
C17_StandardResultIsFirstFileOnly ==
  (Exporting /\ ~XY_radio /\ flow_data_files # <<>>)
    => result = process_data(sample_map, sample_order, group_map, group_order,
                             <<flow_data_files[1]>>, current_measurement, filter_selected,
                             sample_radio, output_type, FALSE).result

\* the entries of a list at the rows that are not selected, in list order
Remaining(s, selected) ==
  LET keep == SelectSeq([i \in 1..Len(s) |-> i], LAMBDA i : i \notin selected)
  IN  [k \in 1..Len(keep) |-> s[keep[k]]]

\* the tables, the names and the displayed entries stand row by row for the same file
ListsAligned ==
  /\ Len(flow_data_files) = Len(flow_data_names)
  /\ Len(flow_files_list) = Len(flow_data_names)
  /\ \A i \in 1..Len(flow_data_names) :
       /\ flow_files_list[i] = flow_data_names[i]
       /\ \E file \in MeasurementWorkbooks :
            file.readable /\ file.name = flow_data_names[i]
              /\ flow_data_files[i] = ReadFlowData(file)

\* C18: after every sequence of add_flowjo_data, remove_flowjo_data and
\* load_flowjo_data calls, failed ones included, the list of tables, the list of names
\* and the displayed list have one length and their i-th entries stand for the same
\* file, in load order; a removal takes out the entries of the selected rows from all
\* three and keeps the others in order.
C18_FileListsStayAligned ==
  /\ []ListsAligned
  /\ [][\A selected \in SUBSET (1..Len(flow_files_list)) :
          remove_flowjo_data(selected) =>
            /\ flow_data_files' = Remaining(flow_data_files, selected)
            /\ flow_data_names' = Remaining(flow_data_names, selected)
            /\ flow_files_list' = Remaining(flow_files_list, selected)]_vars

\* C18 witness: a removal has left one file, two.xlsx, in all three lists.
C18_Witness ==
  /\ handler = "remove_flowjo_data"
  /\ Len(flow_data_files) = 1 /\ Len(flow_data_names) = 1 /\ Len(flow_files_list) = 1
  /\ flow_data_files[1] = ReadFlowData(FileTwo) /\ flow_data_names[1] = FileTwo.name

\* the columns of a table that bear a name
ColumnsNamed(table, name) == {c \in 1..Len(table.columns) : table.columns[c] = name}

\* a set of column numbers that is one run of neighbours
OneBlock(cols) == cols # {} /\ \A c, d \in cols : \A e \in c..d : e \in cols

\* whether the columns cols of a table hold, in the row of its sample, the reading of
\* joined row i (in the Mean modes: some value, when the row has a reading)
Filled(table, cols, rows, i) ==
  \A r \in 1..Len(table.index) :
    (table.index[r] = rows[i].Sample /\ notna(rows[i].value))
      => \E c \in cols : IF output_type = "individual" THEN table.cells[r][c] = rows[i].value
                         ELSE notna(table.cells[r][c])

\* C19: in every mode each group label borne by a filtered joined row with a sample
\* gets exactly one block of columns in the per-file result (the columns of its bare
\* name in Individual, its Mean column followed by its error column otherwise), and
\* the block is filled from the rows of that group.
C19_EveryObservedGroupHasOneBlock ==
  Exporting =>
    \A k \in 1..Len(results) :
      \A i \in Paired(Filtered(k)) :
        LET g == str(Filtered(k)[i].Group)
        IN  IF output_type = "individual"
            THEN /\ OneBlock(ColumnsNamed(results[k], g))
                 /\ Filled(results[k], ColumnsNamed(results[k], g), Filtered(k), i)
            ELSE /\ Cardinality(ColumnsNamed(results[k], g \o MeanSuffix)) = 1
                 /\ ColumnsNamed(results[k], g \o Suffix(output_type))
                      = {c + 1 : c \in ColumnsNamed(results[k], g \o MeanSuffix)}
                 /\ Filled(results[k], ColumnsNamed(results[k], g \o MeanSuffix), Filtered(k), i)

====
